---- MODULE Spec2Model ----
(***************************************************************************)
(* Survivor option-selling strategy (src/strategy/survivor.py) with the    *)
(* broker order placement (src/brokers/zerodha.py) and the order tracker   *)
(* (src/orders.py) it writes through.                                      *)
(*                                                                         *)
(* Prices, references, gaps and strikes are Python floats in the source.   *)
(* They are modelled in fixed point: an integer n stands for n / cfg.unit  *)
(* index points (Scale units a point, FineScale for the fine-grained       *)
(* configuration), so that round(x, 0) and the float comparisons are       *)
(* computed exactly as the source computes them.                           *)
(***************************************************************************)
EXTENDS Integers, Sequences, FiniteSets, TLC

VARIABLES
    cfg,                    \* strat_var_* configuration (fixed after __init__)
    instruments,            \* self.instruments: the option catalog, in file order
    strike_difference,      \* self.strike_difference
    nifty_pe_last_value,    \* PUT reference price
    nifty_ce_last_value,    \* CALL reference price
    pe_reset_gap_flag,      \* PUT reset-armed flag (0/1)
    ce_reset_gap_flag,      \* CALL reset-armed flag (0/1)
    pc,                     \* position of the main loop inside on_ticks_update
    current_price,          \* ticks['last_price'] of the tick being processed
    sell_multiplier,        \* local of _handle_pe_trade / _handle_ce_trade
    total_quantity,         \* local of _handle_pe_trade / _handle_ce_trade
    temp_gap,               \* local of _handle_pe_trade / _handle_ce_trade
    instrument,             \* local: the row returned by _find_nifty_symbol_from_gap
    quote,                  \* local: quote['last_price'] of the selected option
    broker_calls,           \* broker.place_order calls made while processing this tick
    log,                    \* logger records emitted while processing this tick
    at_tick,                \* the references and flags as they were when the tick was taken
    all_orders,             \* OrderTracker._all_orders
    current_order,          \* OrderTracker._current_order
    next_order_id,          \* the venue's next order id (externally assigned, unique)
    orders_file,            \* the content of OrderTracker.orders_file on disk
    all_orders_type,        \* type(_all_orders): "dict", or "list" once a JSON array was loaded
    key_order,              \* the keys of _all_orders in the dict's insertion order
    ledger_call,            \* the latest call made on the OrderTracker: op, arg, ret
    order_ids_completed,    \* OrderTracker._order_ids_completed
    order_types_summary,    \* OrderTracker._order_types_summary
    clock,                  \* the time datetime.now() returns inside add_order
    main_queue,             \* DataDispatcher._main_queue: registered or not, and its items
    dispatched,             \* the ticks the websocket thread has handed to dispatch()
    processed,              \* the ticks whose loop iteration has ended, and how
    call_pc,                \* a broker.place_order call on its own: idle, calling, returned
    call_resp,              \* what each kite.place_order attempt of that call would do
    call_id,                \* the id the venue would hand out for that call
    call_attempts,          \* kite.place_order attempts that call made
    call_return             \* the value that call returned

stratVars  == <<nifty_pe_last_value, nifty_ce_last_value, pe_reset_gap_flag, ce_reset_gap_flag>>
setupVars  == <<cfg, instruments, strike_difference>>
localVars  == <<sell_multiplier, total_quantity, temp_gap, instrument, quote>>
ledgerVars == <<all_orders, current_order, next_order_id, orders_file, key_order, ledger_call,
                all_orders_type>>
sessionVars == <<order_ids_completed, order_types_summary, clock>>
feedVars   == <<main_queue, dispatched, processed>>
callVars   == <<call_pc, call_resp, call_id, call_attempts, call_return>>
vars == <<cfg, instruments, strike_difference, nifty_pe_last_value, nifty_ce_last_value,
          pe_reset_gap_flag, ce_reset_gap_flag, pc, current_price, sell_multiplier,
          total_quantity, temp_gap, instrument, quote, broker_calls, log, at_tick,
          all_orders, current_order, next_order_id, orders_file, key_order, ledger_call,
          all_orders_type,
          order_ids_completed, order_types_summary, clock,
          main_queue, dispatched, processed,
          call_pc, call_resp, call_id, call_attempts, call_return>>

(***************************************************************************)
(* Bounds of the model.                                                    *)
(***************************************************************************)
\* fixed-point resolution: Scale model units are one index point
Scale == 2
\* tick prices range over 0 .. MaxPrice model units
MaxPrice == 12
\* no further tick is taken once the venue has handed out MaxOrders order ids
MaxOrders == 1
\* no more than MaxIterations gap adjustments of one selection loop are logged
MaxIterations == 5
\* the finer fixed-point resolution: FineScale model units are one index point
FineScale == 8
\* the websocket thread delivers no more than MaxTicks ticks
MaxTicks == 2

\* kite.place_order attempts of one broker.place_order call
MaxAttempts == 5

None == "None"

Prices == 0 .. MaxPrice

(***************************************************************************)
(* Inputs: configurations, catalogs, quotes and venue responses.           *)
(***************************************************************************)
\* last_price of the index quote read by _initialize_state (a float)
InitialLtp == {MaxPrice \div 2}
\* last_price of an option quote, around min_price_to_sell
Premiums == {1, 2}
\* what one kite.place_order attempt does: returns an id, returns nothing, raises
VenueResponse == {"id", "empty", "raise"}
\* the venue's behaviour over the attempts of one broker.place_order call; what
\* it would answer after the first id or error is never asked for
VenueScripts ==
    { resp \in [1 .. MaxAttempts -> VenueResponse] :
        \A i \in 1 .. MaxAttempts :
          resp[i] # "empty" => \A j \in (i + 1) .. MaxAttempts : resp[j] = "empty" }

\* strat_var_* values.  --pe-gap, --ce-gap, --pe-reset-gap, --ce-reset-gap and
\* --sell-multiplier-threshold are floats, the quantities, start points and
\* symbol gaps are ints (whole index points).
Config(pg, cg, pr, cr, th) ==
    [pe_gap |-> pg, ce_gap |-> cg, pe_reset_gap |-> pr, ce_reset_gap |-> cr,
     sell_multiplier_threshold |-> th,
     pe_quantity |-> 50, ce_quantity |-> 75,
     pe_start_point |-> 0, ce_start_point |-> 0,
     pe_symbol_gap |-> 2 * Scale, ce_symbol_gap |-> Scale,
     min_price_to_sell |-> 2, trans_type |-> "SELL",
     unit |-> Scale]         \* the model units that make one index point

\* a whole-point gap of two points and a fractional gap of less than two
WholeGap == 2 * Scale
FractionalGap == 2 * Scale - 1

\* two configurations: a whole-point PUT gap with a fractional CALL gap and a
\* threshold of 2, and the mirror image with a threshold of 1
ConfigA == Config(WholeGap, FractionalGap, 0, Scale, 2)
ConfigB == Config(FractionalGap, WholeGap, Scale, 0, 1)
\* gaps and reset gaps of an eighth of a point each, written in units of an
\* eighth of a point, with a threshold no multiplier within the price range
\* exceeds
ConfigFine ==
    [Config(1, 1, 1, 1, 3 * FineScale) EXCEPT !.unit = FineScale,
                                              !.pe_symbol_gap = FineScale,
                                              !.ce_symbol_gap = FineScale]

Row(type, strike, segment) ==
    [tradingsymbol |-> <<strike, type>>, instrument_type |-> type,
     strike |-> strike, segment |-> segment]

\* catalogs as broker.instruments_df filtered by symbol_initials, in file order
CatalogFull ==
    << Row("CE", 4, "NFO-OPT"), Row("CE", 8, "NFO-OPT"), Row("CE", 12, "NFO-OPT"),
       Row("PE", 4, "NFO-OPT"), Row("PE", 8, "NFO-OPT"), Row("PE", 12, "NFO-OPT"),
       Row("CE", 6, "BFO-OPT") >>
CatalogNoPut ==
    << Row("CE", 4, "NFO-OPT"), Row("CE", 8, "NFO-OPT"), Row("CE", 12, "NFO-OPT") >>
\* no CE rows at all: _get_strike_difference finds fewer than two
CatalogNoCall ==
    << Row("PE", 4, "NFO-OPT"), Row("PE", 8, "NFO-OPT"), Row("PE", 12, "NFO-OPT") >>
Catalogs == {CatalogFull, CatalogNoPut, CatalogNoCall}

\* the (configuration, catalog) pairs the strategy is started with
Setups == { <<ConfigA, CatalogFull>>, <<ConfigB, CatalogFull>>, <<ConfigA, CatalogNoPut>>,
            <<ConfigA, CatalogNoCall>> }

(***************************************************************************)
(* Pure helpers of the strategy.                                           *)
(***************************************************************************)
Abs(x) == IF x < 0 THEN -x ELSE x

\* round(x, 0): x in model units, result in whole index points, ties to even
Round0(x) ==
    LET q == x \div cfg.unit
        r == x % cfg.unit
    IN  IF 2 * r < cfg.unit THEN q
        ELSE IF 2 * r > cfg.unit THEN q + 1
        ELSE IF q % 2 = 0 THEN q ELSE q + 1

\* if current_price <= self.nifty_pe_last_value: return
PeStable(price, ref) == price <= ref
\* if current_price >= self.nifty_ce_last_value: return
CeStable(price, ref) == price >= ref

\* price_diff = round(current_price - self.nifty_pe_last_value, 0)   (index points)
PePriceDiff(price, ref) == Round0(price - ref)
\* price_diff = round(self.nifty_ce_last_value - current_price, 0)
CePriceDiff(price, ref) == Round0(ref - price)

\* if price_diff > self.strat_var_pe_gap   (price_diff in points, gap in model units)
GapBreached(price_diff, gap) == price_diff * cfg.unit > gap

\* sell_multiplier = int(price_diff / gap)
SellMultiplier(price_diff, gap) == (price_diff * cfg.unit) \div gap

\* (variant: the guard lets one multiplier too many through)
CheckSellMultiplierBreachLate(m, threshold) == m > threshold + 1
\* _check_sell_multiplier_breach
CheckSellMultiplierBreach(m, threshold) == m > threshold

\* (variant: the reference advances by one gap whatever the multiplier)
AdvancePeOneGap(ref, gap, m) == ref + gap
\* self.nifty_pe_last_value += self.strat_var_pe_gap * sell_multiplier
AdvancePe(ref, gap, m) == ref + gap * m
\* (variant: the reference advances by one gap whatever the multiplier)
AdvanceCeOneGap(ref, gap, m) == ref - gap
\* self.nifty_ce_last_value -= self.strat_var_ce_gap * sell_multiplier
AdvanceCe(ref, gap, m) == ref - gap * m

\* total_quantity = sell_multiplier * self.strat_var_pe_quantity
TotalQuantity(m, quantity) == m * quantity

\* _get_strike_difference: the first two rows whose tradingsymbol ends with CE
GetStrikeDifference(instr) ==
    LET ce == SelectSeq(instr, LAMBDA r : r.tradingsymbol[2] = "CE")
    IN  IF Len(ce) < 2 THEN 0 ELSE Abs(ce[2].strike - ce[1].strike)

\* target_strike = ltp + (-gap if option_type == "PE" else gap)
TargetStrike(option_type, ltp, gap) == ltp + (IF option_type = "PE" THEN -gap ELSE gap)

\* df = instruments[(instrument_type == option_type) & (segment == "NFO-OPT")]
SideRows(instr, option_type) ==
    { instr[i] : i \in { j \in 1 .. Len(instr) :
                           /\ instr[j].instrument_type = option_type
                           /\ instr[j].segment = "NFO-OPT" } }

\* (variant: no tolerance filter, the nearest row of the side is taken)
WithinToleranceAll(df, target, spacing) == df
\* df[df['target_strike_diff'] <= tolerance], tolerance = strike_difference / 2
WithinTolerance(df, target, spacing) ==
    { r \in df : 2 * Abs(r.strike - target) <= spacing }

\* the instrument local before a row is selected
NoRow == Row("None", 0, "None")

\* _find_nifty_symbol_from_gap: the set of results the call can produce.
\* kind "None" when the side has no row (returns None); kind "IndexError" when
\* .iloc[0] is taken of an empty frame; otherwise a row of least distance
\* (sort_values is not stable, so any of several rows at the same distance can
\* come first).
FindNiftySymbolFromGap(instr, spacing, option_type, ltp, gap) ==
    LET target == TargetStrike(option_type, ltp, gap)
        df     == SideRows(instr, option_type)
        near   == WithinTolerance(df, target, spacing)
    IN  IF df = {} THEN {[kind |-> "None", row |-> NoRow]}
        ELSE IF near = {} THEN {[kind |-> "IndexError", row |-> NoRow]}
        ELSE { [kind |-> "row", row |-> r] :
                 r \in { x \in near : \A o \in near :
                           Abs(x.strike - target) <= Abs(o.strike - target) } }

\* (variant: the floor is applied one unit too low)
BelowMinPriceLax(last_price, min_price) == last_price + 1 < min_price
\* if quote['last_price'] < self.strat_var_min_price_to_sell
BelowMinPrice(last_price, min_price) == last_price < min_price

\* (variant: the reset does not look at the flag)
ResetPeUnarmed(ref, price, flag, reset_gap) ==
    IF (ref - price) > reset_gap THEN price + reset_gap ELSE ref
\* _reset_reference_values, PUT side
ResetPe(ref, price, flag, reset_gap) ==
    IF flag = 1 /\ (ref - price) > reset_gap THEN price + reset_gap ELSE ref
\* (variant: the CALL reference is re-anchored on the far side of the price)
ResetCeFarSide(ref, price, flag, reset_gap) ==
    IF flag = 1 /\ (price - ref) > reset_gap THEN price + reset_gap ELSE ref
\* _reset_reference_values, CALL side
ResetCe(ref, price, flag, reset_gap) ==
    IF flag = 1 /\ (price - ref) > reset_gap THEN price - reset_gap ELSE ref

(***************************************************************************)
(* ZerodhaBroker.place_order: the retry loop over kite.place_order.        *)
(* resp[i] is what the i-th attempt would do; the result is the attempt    *)
(* count and whether an id came back (the id itself is the venue's).       *)
(***************************************************************************)
\* (variant: all the attempts are made, whatever they return)
PlaceAttemptsToTheEnd(resp, i) ==
    [ok |-> \E j \in 1 .. MaxAttempts : resp[j] = "id", attempts |-> MaxAttempts]

RECURSIVE PlaceAttempts(_, _)
PlaceAttempts(resp, i) ==
    IF i > MaxAttempts THEN [ok |-> FALSE, attempts |-> MaxAttempts]
    ELSE IF resp[i] = "id" THEN [ok |-> TRUE, attempts |-> i]
    ELSE IF resp[i] = "raise" THEN [ok |-> FALSE, attempts |-> i]
    ELSE PlaceAttempts(resp, i + 1)

\* the value broker.place_order returns: the venue's id, or -1
BrokerPlaceOrder(resp, venue_id) ==
    IF PlaceAttempts(resp, 1).ok THEN venue_id ELSE -1

\* (variant: _place_order does not look at the value it got back)
PlacementFailedIgnored(order_id) == FALSE
\* if order_id == -1: ... return   (in _place_order)
PlacementFailed(order_id) == order_id = -1

(***************************************************************************)
(* OrderTracker.add_order and _save_orders                                 *)
(***************************************************************************)
\* what _save_orders does to the file: json.dump completes; makedirs or open
\* fails and the file is as before; open truncates and json.dump fails.  The
\* exception is logged and swallowed in each case.
SaveOutcomes == {"written", "unchanged", "partial"}

\* the members of a Python list
SeqRange(seq) == {seq[i] : i \in 1 .. Len(seq)}

\* self._current_order = None
NoOrder == [none |-> TRUE]

MissingOrderIdNever(order_id) == FALSE
\* if not order_id: return   (0 stands for a missing or empty order id)
MissingOrderId(order_id) == order_id = 0

\* order_details[key] = value on a dict
With(od, key, value) ==
    [f \in (DOMAIN od) \cup {key} |-> IF f = key THEN value ELSE od[f]]

\* if 'timestamp' not in order_details: order_details['timestamp'] = now
WithTimestamp(od, now) ==
    IF "timestamp" \in DOMAIN od THEN od ELSE With(od, "timestamp", now)

AddOrderAllKeepFirst(orders, od) ==
    IF MissingOrderId(od.order_id) \/ od.order_id \in DOMAIN orders THEN orders
    ELSE [k \in (DOMAIN orders) \cup {od.order_id} |->
            IF k = od.order_id THEN od ELSE orders[k]]
AddOrderAll(orders, od) ==
    IF MissingOrderId(od.order_id) THEN orders
    ELSE [k \in (DOMAIN orders) \cup {od.order_id} |->
            IF k = od.order_id THEN od ELSE orders[k]]

\* the dict keeps a key where it was first inserted
AddOrderKeys(keys, od) ==
    IF MissingOrderId(od.order_id) \/ od.order_id \in SeqRange(keys) THEN keys
    ELSE Append(keys, od.order_id)

AddOrderCurrentKept(cur, od) == cur
AddOrderCurrent(cur, od) ==
    IF MissingOrderId(od.order_id) THEN cur ELSE od

\* the order snapshot _place_order hands to add_order
OrderDetails(order_id, symbol, quantity, ts) ==
    [order_id |-> order_id, symbol |-> symbol, transaction_type |-> cfg.trans_type,
     quantity |-> quantity, price |-> None, timestamp |-> ts]

NoOrders == [k \in {} |-> None]

\* no orders file on disk
NoFile == [state |-> "absent", content |-> NoOrders, keys |-> << >>]

\* _save_orders
SaveOrders(file, orders, keys, outcome) ==
    IF outcome = "written" THEN [state |-> "written", content |-> orders, keys |-> keys]
    ELSE IF outcome = "partial"
         THEN [state |-> "partial", content |-> NoOrders, keys |-> << >>]
    ELSE file

\* add_order's effect on the file: _save_orders runs unless the id is missing
AddOrderFile(file, orders, keys, od, outcome) ==
    IF MissingOrderId(od.order_id) THEN file
    ELSE SaveOrders(file, AddOrderAll(orders, od), AddOrderKeys(keys, od), outcome)

\* the logger records of _save_orders
SaveOrdersLog(outcome) ==
    IF outcome = "written" THEN <<"Saved orders">> ELSE <<"Error saving orders">>

\* the logger records of add_order
AddOrderLog(orders, od, outcome) ==
    IF MissingOrderId(od.order_id) THEN <<"Cannot place order">>
    ELSE (IF od.order_id \in DOMAIN orders THEN <<"already exists">> ELSE << >>)
         \o SaveOrdersLog(outcome) \o <<"Orders saved to disk.">>

\* self._all_orders[order_id] = ... raises TypeError when _all_orders is a list
AddOrderRaises(type, od) == ~MissingOrderId(od.order_id) /\ type = "list"

(***************************************************************************)
(* OrderTracker._load_orders                                               *)
(***************************************************************************)
LatestOrderLastKey(orders, keys, latest) ==
    IF keys = << >> THEN latest ELSE orders[keys[Len(keys)]]
\* the scan over _all_orders.items() for the latest timestamp
RECURSIVE LatestOrder(_, _, _)
LatestOrder(orders, keys, latest) ==
    IF keys = << >> THEN latest
    ELSE LET od == orders[Head(keys)] IN
         LatestOrder(orders, Tail(keys),
                     IF /\ "timestamp" \in DOMAIN od
                        /\ (latest = NoOrder \/ od.timestamp > latest.timestamp)
                     THEN od ELSE latest)

\* the file is there, is not empty and json.load reads a mapping of orders
Readable(file) == file.state = "written"

\* the file is there and json.load reads the empty JSON array: len() of it
\* is 0 and "if self._all_orders" is false, so it stays in _all_orders
LoadsEmptyList(file) == file.state = "empty_array"

LoadOrdersType(file) == IF LoadsEmptyList(file) THEN "list" ELSE "dict"

LoadOrdersAllFresh(file) == NoOrders
LoadOrdersAll(file) == IF Readable(file) THEN file.content ELSE NoOrders
LoadOrdersKeys(file) == IF Readable(file) THEN file.keys ELSE << >>
LoadOrdersCurrent(file) ==
    IF Readable(file) THEN LatestOrder(file.content, file.keys, NoOrder) ELSE NoOrder

\* the logger records of _load_orders
LoadOrdersLog(file) ==
    IF file.state \in {"absent", "empty"} THEN <<"No existing order file found">>
    ELSE IF Readable(file) \/ LoadsEmptyList(file) THEN <<"Loaded orders">>
    ELSE <<"Error decoding JSON">>

(***************************************************************************)
(* OrderTracker.complete_order                                             *)
(***************************************************************************)
NoCounts == [t \in {} |-> 0]

\* the order is known, is not yet completed, and has no 'transaction_type'
CompleteOrderKeyError(completed, orders, order_id) ==
    /\ order_id \in DOMAIN orders
    /\ order_id \notin SeqRange(completed)
    /\ "transaction_type" \notin DOMAIN orders[order_id]

CompleteOrderIdsUnchecked(completed, orders, order_id) ==
    IF order_id \notin SeqRange(completed) THEN Append(completed, order_id) ELSE completed
CompleteOrderIdsToggle(completed, orders, order_id) ==
    IF order_id \notin DOMAIN orders THEN completed
    ELSE IF order_id \notin SeqRange(completed) THEN Append(completed, order_id)
    ELSE SelectSeq(completed, LAMBDA c : c # order_id)
CompleteOrderIds(completed, orders, order_id) ==
    IF order_id \in DOMAIN orders /\ order_id \notin SeqRange(completed)
    THEN Append(completed, order_id) ELSE completed

CompleteOrderSummary(summary, completed, orders, order_id) ==
    IF /\ order_id \in DOMAIN orders
       /\ order_id \notin SeqRange(completed)
       /\ ~CompleteOrderKeyError(completed, orders, order_id)
    THEN LET type == orders[order_id].transaction_type IN
         [t \in (DOMAIN summary) \cup {type} |->
            IF t = type THEN (IF t \in DOMAIN summary THEN summary[t] + 1 ELSE 1)
            ELSE summary[t]]
    ELSE summary

\* the logger records of complete_order (none when the KeyError is raised)
CompleteOrderLog(completed, orders, order_id) ==
    IF order_id \notin DOMAIN orders THEN <<"not found in the order tracker">>
    ELSE IF CompleteOrderKeyError(completed, orders, order_id) THEN << >>
    ELSE IF order_id \in SeqRange(completed) THEN <<"already marked as completed">>
    ELSE <<"marked as completed">>

CompleteOrderReturn(completed, orders, order_id) ==
    IF order_id \notin DOMAIN orders THEN "False"
    ELSE IF CompleteOrderKeyError(completed, orders, order_id) THEN "KeyError"
    ELSE "True"

(***************************************************************************)
(* Initial state: SurvivorStrategy.__init__ and OrderTracker.__init__ on   *)
(* an absent orders file.                                                  *)
(***************************************************************************)
Snapshot(pe, ce, pe_flag, ce_flag) ==
    [pe |-> pe, ce |-> ce, pe_flag |-> pe_flag, ce_flag |-> ce_flag]

\* no broker.place_order call is looked at on its own
NoCall ==
    /\ call_pc = "idle"
    /\ call_resp = [i \in 1 .. MaxAttempts |-> "empty"]
    /\ call_id = 0
    /\ call_attempts = 0
    /\ call_return = 0

\* a call on the OrderTracker as its caller sees it: the operation, its
\* argument, what it returned or raised, and the logger records it emitted
LedgerCall(op, arg, ret, logged) == [op |-> op, arg |-> arg, ret |-> ret, logged |-> logged]
NoLedgerCall == LedgerCall("none", NoOrder, None, << >>)

\* SurvivorStrategy.__init__ and _initialize_state, started with one of the
\* given (configuration, catalog) pairs; first_id is the order id the venue
\* hands out next
SurvivorInitOf(setups, first_id) ==
    /\ \E su \in setups : cfg = su[1] /\ instruments = su[2]
    /\ strike_difference = GetStrikeDifference(instruments)
    /\ \E ltp \in InitialLtp :
         /\ nifty_pe_last_value =
              (IF cfg.pe_start_point = 0 THEN ltp ELSE cfg.pe_start_point)
         /\ nifty_ce_last_value =
              (IF cfg.ce_start_point = 0 THEN ltp ELSE cfg.ce_start_point)
    /\ pe_reset_gap_flag = 0
    /\ ce_reset_gap_flag = 0
    /\ pc = "idle"
    /\ current_price = -1          \* no tick taken yet
    /\ sell_multiplier = 0
    /\ total_quantity = 0
    /\ temp_gap = 0
    /\ instrument = NoRow
    /\ quote = 0
    /\ broker_calls = << >>
    /\ log = << >>
    /\ at_tick = Snapshot(nifty_pe_last_value, nifty_ce_last_value, 0, 0)
    /\ next_order_id = first_id

\* OrderTracker.__init__ where there is no orders file
TrackerInit ==
    /\ all_orders = NoOrders
    /\ all_orders_type = "dict"
    /\ current_order = NoOrder
    /\ orders_file = NoFile
    /\ key_order = << >>
    /\ ledger_call = NoLedgerCall
    /\ order_ids_completed = << >>
    /\ order_types_summary = NoCounts
    /\ clock = 1

SurvivorInit == SurvivorInitOf(Setups, 1)

\* main: dispatcher = DataDispatcher(); dispatcher.register_main_queue(Queue())
Registered(items) == [registered |-> TRUE, items |-> items]
FeedInit ==
    /\ main_queue = Registered(<< >>)
    /\ dispatched = << >>
    /\ processed = << >>

StrategyInit == SurvivorInit /\ TrackerInit /\ FeedInit

Init == NoCall /\ StrategyInit

ClearLocals ==
    /\ sell_multiplier' = 0
    /\ total_quantity' = 0
    /\ temp_gap' = 0
    /\ instrument' = NoRow
    /\ quote' = 0

(***************************************************************************)
(* Main loop: tick_data = dispatcher._main_queue.get();                    *)
(*            strategy.on_ticks_update(tick_data[0])                       *)
(***************************************************************************)
\* strategy.on_ticks_update(tick) is entered: current_price = ticks['last_price']
TakeTick(p) ==
    /\ pc = "idle"
    /\ current_price' = p
    /\ pc' = "pe"
    /\ at_tick' = Snapshot(nifty_pe_last_value, nifty_ce_last_value,
                           pe_reset_gap_flag, ce_reset_gap_flag)
    /\ UNCHANGED <<setupVars, callVars, sessionVars, stratVars, localVars, broker_calls, log, ledgerVars>>

\* a tick of any price is taken; where it comes from is not looked at
GetTick(p) ==
    /\ next_order_id <= MaxOrders
    /\ TakeTick(p)
    /\ UNCHANGED feedVars

\* (variant: the exception is logged and leaves the loop)
RaiseOutOfMainLoop(e) ==
    /\ pc' = "stopped"
    /\ log' = Append(log, <<"error_processing_tick", e>>)
    /\ ClearLocals
\* an exception leaves on_ticks_update and is caught by the main loop:
\* except Exception as e: logger.error(...)
RaiseToMainLoop(e) ==
    /\ pc' = "done"
    /\ log' = Append(log, <<"error_processing_tick", e>>)
    /\ ClearLocals

\* the loop iteration ends and the next queue.get() is awaited; the tick and
\* what was observed while processing it are dropped
EndIteration ==
    /\ pc = "done"
    /\ pc' = "idle"
    /\ current_price' = -1
    /\ broker_calls' = << >>
    /\ log' = << >>
    /\ at_tick' = Snapshot(nifty_pe_last_value, nifty_ce_last_value,
                           pe_reset_gap_flag, ce_reset_gap_flag)
    /\ UNCHANGED <<setupVars, callVars, sessionVars, stratVars, localVars, ledgerVars>>

LoopBack == EndIteration /\ UNCHANGED feedVars

\* where _handle_pe_trade returns to: self._handle_ce_trade(current_price)
PeReturn == "ce"
\* where _handle_ce_trade returns to: self._reset_reference_values(current_price)
CeReturn == "reset"
\* (variant: the flag is left as it was)
ArmPeFlagSkipped(flag) == flag
\* self.pe_reset_gap_flag = 1, after _place_order
ArmPeFlag(flag) == 1
\* (variant: the flag is left as it was)
ArmCeFlagSkipped(flag) == flag
\* self.ce_reset_gap_flag = 1, after _place_order
ArmCeFlag(flag) == 1
\* (variant: no break, the selection loop goes round again after _place_order)
AfterPePlaceNoBreak == "pe_find"
\* break: the selection loop ends once _place_order has been called
AfterPePlace == PeReturn
AfterCePlace == CeReturn

(***************************************************************************)
(* _handle_pe_trade                                                        *)
(***************************************************************************)
PeTrigger ==
    /\ pc = "pe"
    /\ UNCHANGED <<setupVars, feedVars, callVars, sessionVars, nifty_ce_last_value, pe_reset_gap_flag, ce_reset_gap_flag,
                   current_price, broker_calls, at_tick, ledgerVars>>
    /\ IF PeStable(current_price, nifty_pe_last_value)
       THEN /\ log' = Append(log, <<"pe_stable">>)
            /\ pc' = PeReturn
            /\ UNCHANGED <<nifty_pe_last_value, localVars>>
       ELSE LET price_diff == PePriceDiff(current_price, nifty_pe_last_value) IN
            IF GapBreached(price_diff, cfg.pe_gap)
            THEN LET m == SellMultiplier(price_diff, cfg.pe_gap) IN
                 IF CheckSellMultiplierBreach(m, cfg.sell_multiplier_threshold)
                 THEN /\ log' = Append(log, <<"pe_multiplier_breach">>)
                      /\ pc' = PeReturn
                      /\ UNCHANGED <<nifty_pe_last_value, localVars>>
                 ELSE /\ nifty_pe_last_value' = AdvancePe(nifty_pe_last_value, cfg.pe_gap, m)
                      /\ sell_multiplier' = m
                      /\ total_quantity' = TotalQuantity(m, cfg.pe_quantity)
                      /\ temp_gap' = cfg.pe_symbol_gap
                      /\ pc' = "pe_find"
                      /\ UNCHANGED <<instrument, quote, log>>
            ELSE /\ pc' = PeReturn
                 /\ UNCHANGED <<nifty_pe_last_value, localVars, log>>

PeFind ==
    /\ pc = "pe_find"
    /\ UNCHANGED <<setupVars, feedVars, callVars, sessionVars, stratVars, current_price, broker_calls, at_tick, ledgerVars>>
    /\ \E r \in FindNiftySymbolFromGap(instruments, strike_difference, "PE",
                                        current_price, temp_gap) :
         IF r.kind = "IndexError" THEN RaiseToMainLoop("IndexError")
         ELSE IF r.kind = "None"
         THEN /\ log' = Append(log, <<"pe_no_instrument">>)
              /\ pc' = PeReturn
              /\ ClearLocals
         ELSE /\ instrument' = r.row
              /\ pc' = "pe_quote"
              /\ UNCHANGED <<sell_multiplier, total_quantity, temp_gap, quote, log>>

\* the gap adjustments the selection loop has made so far on this tick
Adjustments(tag) == Cardinality({ i \in 1 .. Len(log) : log[i][1] = tag })

PeQuote(last_price) ==
    /\ pc = "pe_quote"
    /\ UNCHANGED <<setupVars, feedVars, callVars, sessionVars, stratVars, current_price, broker_calls, at_tick,
                   ledgerVars, sell_multiplier, total_quantity>>
    /\ quote' = last_price
    /\ IF BelowMinPrice(last_price, cfg.min_price_to_sell)
       THEN /\ log' = IF Adjustments("pe_adjusting_gap") < MaxIterations
                        THEN Append(log, <<"pe_adjusting_gap">>)
                        ELSE log
            /\ temp_gap' = temp_gap - strike_difference
            /\ pc' = "pe_find"
            /\ UNCHANGED instrument
       ELSE /\ log' = Append(log, <<"pe_executing">>)
            /\ pc' = "pe_place"
            /\ UNCHANGED <<temp_gap, instrument>>

\* _place_order: broker.place_order, then order_manager.add_order unless -1
PlaceOrder(side, resp, saved) ==
    LET order_id == BrokerPlaceOrder(resp, next_order_id)
        od == OrderDetails(order_id, instrument.tradingsymbol, total_quantity,
                           next_order_id)
    IN  /\ broker_calls' = Append(broker_calls,
              [side |-> side, symbol |-> instrument.tradingsymbol,
               quantity |-> total_quantity, order_id |-> order_id])
        /\ IF PlacementFailed(order_id)
           THEN /\ log' = Append(log, <<"order_placement_failed">>)
                /\ UNCHANGED ledgerVars
           ELSE /\ all_orders' = AddOrderAll(all_orders, od)
                /\ current_order' = AddOrderCurrent(current_order, od)
                /\ orders_file' = AddOrderFile(orders_file, all_orders, key_order, od, saved)
                /\ key_order' = AddOrderKeys(key_order, od)
                /\ all_orders_type' = all_orders_type
                /\ ledger_call' = LedgerCall("add_order", od, None,
                                             AddOrderLog(all_orders, od, saved))
                /\ next_order_id' = next_order_id + (IF order_id = -1 THEN 0 ELSE 1)
                /\ UNCHANGED log

PePlace ==
    /\ pc = "pe_place"
    /\ \E resp \in VenueScripts, saved \in SaveOutcomes : PlaceOrder("PE", resp, saved)
    /\ pe_reset_gap_flag' = ArmPeFlag(pe_reset_gap_flag)
    /\ pc' = AfterPePlace
    /\ ClearLocals
    /\ UNCHANGED <<setupVars, feedVars, callVars, sessionVars, nifty_pe_last_value, nifty_ce_last_value,
                   ce_reset_gap_flag, current_price, at_tick>>

(***************************************************************************)
(* _handle_ce_trade                                                        *)
(***************************************************************************)
CeTrigger ==
    /\ pc = "ce"
    /\ UNCHANGED <<setupVars, feedVars, callVars, sessionVars, nifty_pe_last_value, pe_reset_gap_flag, ce_reset_gap_flag,
                   current_price, broker_calls, at_tick, ledgerVars>>
    /\ IF CeStable(current_price, nifty_ce_last_value)
       THEN /\ log' = Append(log, <<"ce_stable">>)
            /\ pc' = CeReturn
            /\ UNCHANGED <<nifty_ce_last_value, localVars>>
       ELSE LET price_diff == CePriceDiff(current_price, nifty_ce_last_value) IN
            IF GapBreached(price_diff, cfg.ce_gap)
            THEN LET m == SellMultiplier(price_diff, cfg.ce_gap) IN
                 IF CheckSellMultiplierBreach(m, cfg.sell_multiplier_threshold)
                 THEN /\ log' = Append(log, <<"ce_multiplier_breach">>)
                      /\ pc' = CeReturn
                      /\ UNCHANGED <<nifty_ce_last_value, localVars>>
                 ELSE /\ nifty_ce_last_value' = AdvanceCe(nifty_ce_last_value, cfg.ce_gap, m)
                      /\ sell_multiplier' = m
                      /\ total_quantity' = TotalQuantity(m, cfg.ce_quantity)
                      /\ temp_gap' = cfg.ce_symbol_gap
                      /\ pc' = "ce_find"
                      /\ UNCHANGED <<instrument, quote, log>>
            ELSE /\ pc' = CeReturn
                 /\ UNCHANGED <<nifty_ce_last_value, localVars, log>>

CeFind ==
    /\ pc = "ce_find"
    /\ UNCHANGED <<setupVars, feedVars, callVars, sessionVars, stratVars, current_price, broker_calls, at_tick, ledgerVars>>
    /\ \E r \in FindNiftySymbolFromGap(instruments, strike_difference, "CE",
                                        current_price, temp_gap) :
         IF r.kind = "IndexError" THEN RaiseToMainLoop("IndexError")
         ELSE IF r.kind = "None"
         THEN /\ log' = Append(log, <<"ce_no_instrument">>)
              /\ pc' = CeReturn
              /\ ClearLocals
         ELSE /\ instrument' = r.row
              /\ pc' = "ce_quote"
              /\ UNCHANGED <<sell_multiplier, total_quantity, temp_gap, quote, log>>

CeQuote(last_price) ==
    /\ pc = "ce_quote"
    /\ UNCHANGED <<setupVars, feedVars, callVars, sessionVars, stratVars, current_price, broker_calls, at_tick,
                   ledgerVars, sell_multiplier, total_quantity>>
    /\ quote' = last_price
    /\ IF BelowMinPrice(last_price, cfg.min_price_to_sell)
       THEN /\ log' = IF Adjustments("ce_adjusting_gap") < MaxIterations
                        THEN Append(log, <<"ce_adjusting_gap">>)
                        ELSE log
            /\ temp_gap' = temp_gap - strike_difference
            /\ pc' = "ce_find"
            /\ UNCHANGED instrument
       ELSE /\ log' = Append(log, <<"ce_executing">>)
            /\ pc' = "ce_place"
            /\ UNCHANGED <<temp_gap, instrument>>

CePlace ==
    /\ pc = "ce_place"
    /\ \E resp \in VenueScripts, saved \in SaveOutcomes : PlaceOrder("CE", resp, saved)
    /\ ce_reset_gap_flag' = ArmCeFlag(ce_reset_gap_flag)
    /\ pc' = AfterCePlace
    /\ ClearLocals
    /\ UNCHANGED <<setupVars, feedVars, callVars, sessionVars, nifty_pe_last_value, nifty_ce_last_value,
                   pe_reset_gap_flag, current_price, at_tick>>

\* self.broker.get_quote(symbol_code)[symbol_code] fails (broker or lookup error)
QuoteError ==
    /\ pc \in {"pe_quote", "ce_quote"}
    /\ RaiseToMainLoop("quote")
    /\ UNCHANGED <<setupVars, feedVars, callVars, sessionVars, stratVars, current_price, broker_calls, at_tick, ledgerVars>>

(***************************************************************************)
(* _reset_reference_values                                                 *)
(***************************************************************************)
ResetReferenceValues ==
    /\ pc = "reset"
    /\ nifty_pe_last_value' = ResetPe(nifty_pe_last_value, current_price,
                                      pe_reset_gap_flag, cfg.pe_reset_gap)
    /\ nifty_ce_last_value' = ResetCe(nifty_ce_last_value, current_price,
                                      ce_reset_gap_flag, cfg.ce_reset_gap)
    /\ log' = log
              \o (IF nifty_pe_last_value' # nifty_pe_last_value
                  THEN << <<"resetting_pe">> >> ELSE << >>)
              \o (IF nifty_ce_last_value' # nifty_ce_last_value
                  THEN << <<"resetting_ce">> >> ELSE << >>)
    /\ pc' = "done"
    /\ UNCHANGED <<setupVars, feedVars, callVars, sessionVars, pe_reset_gap_flag, ce_reset_gap_flag, current_price,
                   localVars, broker_calls, at_tick, ledgerVars>>

Next ==
    \/ \E p \in Prices : GetTick(p)
    \/ PeTrigger
    \/ PeFind
    \/ \E q \in Premiums : PeQuote(q)
    \/ PePlace
    \/ CeTrigger
    \/ CeFind
    \/ \E q \in Premiums : CeQuote(q)
    \/ CePlace
    \/ QuoteError
    \/ ResetReferenceValues
    \/ LoopBack

Spec == Init /\ [][Next]_vars

(***************************************************************************)
(* ZerodhaBroker.place_order on its own: calls with every behaviour of the *)
(* venue over the five attempts.  The strategy does not run.               *)
(***************************************************************************)
\* every behaviour of the venue over the attempts of one call
AllVenueScripts == [1 .. MaxAttempts -> VenueResponse]
\* the ids the venue hands out
VenueIds == 1 .. (MaxOrders + 1)

InitBroker ==
    /\ StrategyInit
    /\ call_pc = "calling"
    /\ call_resp \in AllVenueScripts
    /\ call_id \in VenueIds
    /\ call_attempts = 0
    /\ call_return = 0

\* one broker.place_order call, from entry to return
BrokerCall ==
    /\ call_pc = "calling"
    /\ call_attempts' = PlaceAttempts(call_resp, 1).attempts
    /\ call_return' = BrokerPlaceOrder(call_resp, call_id)
    /\ call_pc' = "returned"
    /\ UNCHANGED <<call_resp, call_id>>
    /\ UNCHANGED <<setupVars, feedVars, stratVars, localVars, ledgerVars, sessionVars, pc, current_price,
                   broker_calls, log, at_tick>>

\* the next call, against a venue that may behave differently
BrokerNextCall ==
    /\ call_pc = "returned"
    /\ call_pc' = "calling"
    /\ call_resp' \in AllVenueScripts
    /\ call_id' \in VenueIds
    /\ call_attempts' = 0
    /\ call_return' = 0
    /\ UNCHANGED <<setupVars, feedVars, stratVars, localVars, ledgerVars, sessionVars, pc, current_price,
                   broker_calls, log, at_tick>>

NextBroker == BrokerCall \/ BrokerNextCall

SpecBroker == InitBroker /\ [][NextBroker]_vars

(***************************************************************************)
(* OrderTracker on its own: its user records and completes orders, and the *)
(* process is started again (OrderTracker.__init__ runs on the orders      *)
(* file).  The strategy does not run.                                      *)
(***************************************************************************)
\* the clock advances with every order add_order takes; it takes none once
\* the clock is past MaxClock
MaxClock == 3
\* a timestamp the caller sets itself: earlier than every reading of the clock
CallerTimestamp == 0
\* order ids handed to complete_order (3 is never recorded)
CompletableIds == {1, 2, 3}

\* the values of order_details['transaction_type']
TransactionTypes == {"SELL", "BUY"}

\* an order_details dict without 'transaction_type' and without 'timestamp'
Bare(order_id) ==
    [order_id |-> order_id, symbol |-> "NIFTY", quantity |-> 50, price |-> None]
Typed(order_id, type) == With(Bare(order_id), "transaction_type", type)

\* the order_details dicts handed to add_order: a missing id (0); two types
\* for id 1; an order without a type for id 2; with and without a timestamp
\* set by the caller
OrderInputs ==
    { Typed(0, "SELL"),
      Typed(1, "SELL"), Typed(1, "BUY"), With(Typed(1, "SELL"), "timestamp", CallerTimestamp),
      Typed(2, "SELL"), Bare(2), With(Typed(2, "SELL"), "timestamp", CallerTimestamp) }

InitLedger ==
    /\ Init
    /\ cfg = ConfigA
    /\ instruments = CatalogFull

\* OrderTracker.add_order, from entry to return or to the TypeError
LedgerAddOrder(od, saved) ==
    LET stamped == WithTimestamp(od, clock) IN
    /\ clock <= MaxClock
    /\ IF AddOrderRaises(all_orders_type, od)
       THEN /\ current_order' = AddOrderCurrent(current_order, stamped)
            /\ ledger_call' = LedgerCall("add_order", od, "TypeError", << >>)
            /\ UNCHANGED <<all_orders, key_order, orders_file>>
       ELSE /\ all_orders' = AddOrderAll(all_orders, stamped)
            /\ key_order' = AddOrderKeys(key_order, stamped)
            /\ current_order' = AddOrderCurrent(current_order, stamped)
            /\ orders_file' = AddOrderFile(orders_file, all_orders, key_order, stamped, saved)
            /\ ledger_call' = LedgerCall("add_order", od, None,
                                         AddOrderLog(all_orders, stamped, saved))
    /\ clock' = IF MissingOrderId(od.order_id) THEN clock ELSE clock + 1
    /\ UNCHANGED <<setupVars, feedVars, stratVars, localVars, callVars, pc, current_price,
                   broker_calls, log, at_tick, next_order_id, all_orders_type,
                   order_ids_completed, order_types_summary>>

\* OrderTracker.complete_order, from entry to return or to the KeyError
LedgerCompleteOrder(order_id) ==
    /\ order_ids_completed' = CompleteOrderIds(order_ids_completed, all_orders, order_id)
    /\ order_types_summary' = CompleteOrderSummary(order_types_summary, order_ids_completed,
                                                   all_orders, order_id)
    /\ ledger_call' = LedgerCall("complete_order", [order_id |-> order_id],
                                 CompleteOrderReturn(order_ids_completed, all_orders, order_id),
                                 CompleteOrderLog(order_ids_completed, all_orders, order_id))
    /\ UNCHANGED <<setupVars, feedVars, stratVars, localVars, callVars, pc, current_price,
                   broker_calls, log, at_tick, all_orders, current_order, next_order_id,
                   orders_file, key_order, all_orders_type, clock>>

\* OrderTracker.__init__ on this orders file
TrackerLoaded(file, op) ==
    /\ all_orders' = LoadOrdersAll(file)
    /\ all_orders_type' = LoadOrdersType(file)
    /\ key_order' = LoadOrdersKeys(file)
    /\ current_order' = LoadOrdersCurrent(file)
    /\ order_ids_completed' = << >>
    /\ order_types_summary' = NoCounts
    /\ ledger_call' = LedgerCall(op, NoOrder, None, LoadOrdersLog(file))

\* the process ends and OrderTracker.__init__ runs again on the orders file
LedgerRestart ==
    /\ TrackerLoaded(orders_file, "init")
    /\ UNCHANGED <<setupVars, feedVars, stratVars, localVars, callVars, pc, current_price,
                   broker_calls, log, at_tick, next_order_id, orders_file, clock>>

\* the process dies inside _save_orders, after open(..., 'w') has truncated
\* the file and before json.dump has written it out, and is started again
LedgerCrashInSave ==
    /\ all_orders_type = "dict"
    /\ orders_file' = SaveOrders(orders_file, all_orders, key_order, "partial")
    /\ TrackerLoaded(orders_file', "init after crash")
    /\ UNCHANGED <<setupVars, feedVars, stratVars, localVars, callVars, pc, current_price,
                   broker_calls, log, at_tick, next_order_id, clock>>

NextLedger ==
    \/ \E od \in OrderInputs, saved \in SaveOutcomes : LedgerAddOrder(od, saved)
    \/ \E order_id \in CompletableIds : LedgerCompleteOrder(order_id)
    \/ LedgerRestart
    \/ LedgerCrashInSave

SpecLedger == InitLedger /\ [][NextLedger]_vars

(***************************************************************************)
(* OrderTracker started on an orders file it finds: none, an empty one, a  *)
(* truncated one, one holding an empty JSON array, or a mapping of one or  *)
(* two orders in either order.                                             *)
(***************************************************************************)
FileTimestamps == {CallerTimestamp, CallerTimestamp + 1}

\* an order as _save_orders wrote it
FileEntry(order_id, ts) == With(Typed(order_id, "SELL"), "timestamp", ts)

\* an orders file holding these entries in this order
FileOf(entries) ==
    [state |-> "written",
     content |-> [k \in {entries[i].order_id : i \in 1 .. Len(entries)} |->
                    (CHOOSE e \in SeqRange(entries) : e.order_id = k)],
     keys |-> [i \in 1 .. Len(entries) |-> entries[i].order_id]]

FileInputs ==
    {NoFile} \cup
    {[state |-> st, content |-> NoOrders, keys |-> << >>] :
        st \in {"empty", "partial", "empty_array"}} \cup
    {FileOf(<<FileEntry(id, ts)>>) : id \in {1, 2}, ts \in FileTimestamps} \cup
    {FileOf(<<FileEntry(1, t1), FileEntry(2, t2)>>) : t1 \in FileTimestamps, t2 \in FileTimestamps} \cup
    {FileOf(<<FileEntry(2, t2), FileEntry(1, t1)>>) : t1 \in FileTimestamps, t2 \in FileTimestamps}

\* the tracker has been constructed on one of these files; the clock is
\* such that it takes one more order
InitLoad ==
    /\ NoCall
    /\ SurvivorInit
    /\ FeedInit
    /\ cfg = ConfigA
    /\ instruments = CatalogFull
    /\ orders_file \in FileInputs
    /\ all_orders = LoadOrdersAll(orders_file)
    /\ all_orders_type = LoadOrdersType(orders_file)
    /\ key_order = LoadOrdersKeys(orders_file)
    /\ current_order = LoadOrdersCurrent(orders_file)
    /\ order_ids_completed = << >>
    /\ order_types_summary = NoCounts
    /\ ledger_call = LedgerCall("init", NoOrder, None, LoadOrdersLog(orders_file))
    /\ clock = MaxClock

SpecLoad == InitLoad /\ [][NextLedger]_vars

(***************************************************************************)
(* The strategy started with small positive gaps and reset gaps and a     *)
(* threshold that is out of reach, at a venue that has handed out order    *)
(* ids before.                                                             *)
(***************************************************************************)
InitFine ==
    /\ NoCall
    /\ SurvivorInitOf({<<ConfigFine, CatalogFull>>}, MaxOrders)
    /\ TrackerInit
    /\ FeedInit

SpecFine == InitFine /\ [][Next]_vars

(***************************************************************************)
(* The tick feed: the websocket thread calls on_ticks, which dispatches    *)
(* each message (a list of ticks) to the main queue, while the main thread *)
(* takes one message at a time and processes its first tick.               *)
(***************************************************************************)
\* the last_price values of the ticks delivered: far above and far below the
\* index price the strategy starts from
FeedPrices == {0, MaxPrice}
\* a message as KiteTicker hands it to on_ticks: the list of the ticks of the
\* subscribed instruments, here the one index instrument
FeedMessages == { <<p>> : p \in FeedPrices }

\* DataDispatcher.dispatch: dropped with an error record when no queue is
\* registered, put on the queue otherwise
DispatchTo(queue, data) ==
    IF ~queue.registered THEN queue
    ELSE [queue EXCEPT !.items = Append(@, data)]

InitFeed ==
    /\ NoCall
    /\ SurvivorInitOf({<<ConfigA, CatalogFull>>, <<ConfigA, CatalogNoCall>>}, 1)
    /\ TrackerInit
    /\ FeedInit

\* on_ticks(ws, ticks): dispatcher.dispatch(ticks), on the websocket thread
Dispatch(data) ==
    /\ Len(dispatched) < MaxTicks
    /\ main_queue' = DispatchTo(main_queue, data)
    /\ dispatched' = dispatched \o data
    /\ UNCHANGED <<setupVars, stratVars, localVars, ledgerVars, sessionVars, callVars,
                   pc, current_price, broker_calls, log, at_tick, processed>>

\* tick_data = dispatcher._main_queue.get() (blocks while the queue is empty);
\* strategy.on_ticks_update(tick_data[0])
ConsumeTick ==
    /\ main_queue.items # << >>
    /\ TakeTick(Head(Head(main_queue.items)))
    /\ main_queue' = [main_queue EXCEPT !.items = Tail(@)]
    /\ UNCHANGED <<dispatched, processed>>

\* the main loop logged "Error processing tick" in this iteration
ErrorLogged == \E i \in 1 .. Len(log) : log[i][1] = "error_processing_tick"

\* the iteration ends, normally or through the except clause, and the loop
\* goes round
FeedLoopBack ==
    /\ EndIteration
    /\ processed' = Append(processed, [last_price |-> current_price, error |-> ErrorLogged])
    /\ UNCHANGED <<main_queue, dispatched>>

\* the steps of the main thread
MainThread ==
    \/ ConsumeTick
    \/ PeTrigger
    \/ PeFind
    \/ \E q \in Premiums : PeQuote(q)
    \/ PePlace
    \/ CeTrigger
    \/ CeFind
    \/ \E q \in Premiums : CeQuote(q)
    \/ CePlace
    \/ QuoteError
    \/ ResetReferenceValues
    \/ FeedLoopBack

NextFeed ==
    \/ \E data \in FeedMessages : Dispatch(data)
    \/ MainThread

SpecFeed == InitFeed /\ [][NextFeed]_vars

\* the main thread takes a step whenever it can; nothing is assumed of the
\* websocket thread, of the quotes or of the venue
SpecFeedFair == SpecFeed /\ WF_vars(MainThread)

(***************************************************************************)
(* Vocabulary of the properties.                                           *)
(***************************************************************************)
PeStages == {"pe_find", "pe_quote", "pe_place"}
CeStages == {"ce_find", "ce_quote", "ce_place"}

InLog(e) == \E i \in 1 .. Len(log) : log[i][1] = e
InLogError(e) == \E i \in 1 .. Len(log) : log[i] = <<"error_processing_tick", e>>
CallsOf(side, calls) == { i \in 1 .. Len(calls) : calls[i].side = side }

\* the step in which a side's trigger evaluation produces a sell decision
PeFires == pc = "pe" /\ pc' = "pe_find"
CeFires == pc = "ce" /\ pc' = "ce_find"

\* the multiplier as the design states it: floor(|price - reference| / gap)
StatedMultiplier(price, ref, gap) == Abs(price - ref) \div gap

\* the breach guard trips on the tick being evaluated (with the multiplier the
\* code computes)
PeGuardTrips(price, ref) ==
    /\ ~PeStable(price, ref)
    /\ GapBreached(PePriceDiff(price, ref), cfg.pe_gap)
    /\ SellMultiplier(PePriceDiff(price, ref), cfg.pe_gap) > cfg.sell_multiplier_threshold
CeGuardTrips(price, ref) ==
    /\ ~CeStable(price, ref)
    /\ GapBreached(CePriceDiff(price, ref), cfg.ce_gap)
    /\ SellMultiplier(CePriceDiff(price, ref), cfg.ce_gap) > cfg.sell_multiplier_threshold

(***************************************************************************)
(* C1.  Every tick whose price is more than the side's gap beyond the      *)
(* side's reference, with the multiplier floor(|diff| / gap) within the     *)
(* threshold, fires that side: a sell decision is produced and the         *)
(* reference is advanced (PUT: price - reference > pe_gap; CALL:           *)
(* reference - price > ce_gap).                                            *)
(***************************************************************************)
C1_FiresBeyondGap ==
    [][ /\ ( /\ pc = "pe"
             /\ current_price - nifty_pe_last_value > cfg.pe_gap
             /\ StatedMultiplier(current_price, nifty_pe_last_value, cfg.pe_gap)
                  <= cfg.sell_multiplier_threshold )
           => (PeFires /\ nifty_pe_last_value' > nifty_pe_last_value)
        /\ ( /\ pc = "ce"
             /\ nifty_ce_last_value - current_price > cfg.ce_gap
             /\ StatedMultiplier(current_price, nifty_ce_last_value, cfg.ce_gap)
                  <= cfg.sell_multiplier_threshold )
           => (CeFires /\ nifty_ce_last_value' < nifty_ce_last_value) ]_vars

(***************************************************************************)
(* C2.  Whenever a side produces a decision, its multiplier is             *)
(* floor(|price - reference| / gap) and at least 1, the quantity is        *)
(* multiplier * the side's per-unit quantity, and the difference is not    *)
(* exactly the gap.                                                        *)
(***************************************************************************)
C2_MultiplierIsFloor ==
    [][ /\ PeFires =>
             /\ sell_multiplier' =
                  StatedMultiplier(current_price, nifty_pe_last_value, cfg.pe_gap)
             /\ sell_multiplier' >= 1
             /\ total_quantity' = sell_multiplier' * cfg.pe_quantity
             /\ current_price - nifty_pe_last_value # cfg.pe_gap
        /\ CeFires =>
             /\ sell_multiplier' =
                  StatedMultiplier(current_price, nifty_ce_last_value, cfg.ce_gap)
             /\ sell_multiplier' >= 1
             /\ total_quantity' = sell_multiplier' * cfg.ce_quantity
             /\ nifty_ce_last_value - current_price # cfg.ce_gap ]_vars

(***************************************************************************)
(* C3.  When a side fires, its reference moves by exactly gap * multiplier *)
(* (up for PUT, down for CALL) in the firing step, which precedes every    *)
(* placement attempt; selection, quoting and placement, whether they       *)
(* succeed or fail, leave it at that value until the side's handler ends.   *)
(***************************************************************************)
C3_AdvanceBeforePlacementAndKept ==
    [][ /\ PeFires =>
             nifty_pe_last_value' = nifty_pe_last_value + cfg.pe_gap * sell_multiplier'
        /\ CeFires =>
             nifty_ce_last_value' = nifty_ce_last_value - cfg.ce_gap * sell_multiplier'
        /\ pc \in PeStages =>
             /\ nifty_pe_last_value' = nifty_pe_last_value
             /\ nifty_pe_last_value = at_tick.pe + cfg.pe_gap * sell_multiplier
        /\ pc \in CeStages =>
             /\ nifty_ce_last_value' = nifty_ce_last_value
             /\ nifty_ce_last_value = at_tick.ce - cfg.ce_gap * sell_multiplier
        /\ broker_calls' # broker_calls /\ pc' # "idle" => pc \in {"pe_place", "ce_place"}
      ]_vars

\* a PUT placement has failed and the PUT handler has returned
C3_Witness ==
    /\ pc = "ce"
    /\ Len(broker_calls) = 1
    /\ broker_calls[1].side = "PE"
    /\ broker_calls[1].order_id = -1
    /\ nifty_pe_last_value > at_tick.pe

(***************************************************************************)
(* C4.  When the computed multiplier exceeds sell_multiplier_threshold the *)
(* side places no order and its reference (and flag) stay as they were,    *)
(* and at the end of the tick the same price still trips the guard         *)
(* against the unchanged reference.                                        *)
(***************************************************************************)
C4_BreachGuardNoAdvance ==
    /\ [][ /\ (pc = "pe" /\ PeGuardTrips(current_price, nifty_pe_last_value)) =>
                /\ pc' = "ce"
                /\ nifty_pe_last_value' = nifty_pe_last_value
                /\ pe_reset_gap_flag' = pe_reset_gap_flag
                /\ broker_calls' = broker_calls
                /\ all_orders' = all_orders
           /\ (pc = "ce" /\ CeGuardTrips(current_price, nifty_ce_last_value)) =>
                /\ pc' = "reset"
                /\ nifty_ce_last_value' = nifty_ce_last_value
                /\ ce_reset_gap_flag' = ce_reset_gap_flag
                /\ broker_calls' = broker_calls
                /\ all_orders' = all_orders ]_vars
    /\ [] ( pc = "done" =>
              /\ InLog("pe_multiplier_breach") =>
                   /\ nifty_pe_last_value = at_tick.pe
                   /\ PeGuardTrips(current_price, nifty_pe_last_value)
                   /\ CallsOf("PE", broker_calls) = {}
              /\ InLog("ce_multiplier_breach") =>
                   /\ nifty_ce_last_value = at_tick.ce
                   /\ CeGuardTrips(current_price, nifty_ce_last_value)
                   /\ CallsOf("CE", broker_calls) = {} )

\* a tick on which the PUT guard tripped has been processed to its end
C4_Witness ==
    /\ pc = "done"
    /\ InLog("pe_multiplier_breach")
    /\ current_price - nifty_pe_last_value > cfg.pe_gap * cfg.sell_multiplier_threshold

(***************************************************************************)
(* C5.  In every suppressed-trigger case (no instrument within tolerance,  *)
(* fallback gaps exhausted, or the multiplier guard tripped) no order is   *)
(* placed for the side and the side's reference is left advanced by        *)
(* gap * multiplier.                                                       *)
(***************************************************************************)
C5_SuppressedLeavesAdvanced ==
    [][ /\ (pc = "pe" /\ PeGuardTrips(current_price, nifty_pe_last_value)) =>
             /\ nifty_pe_last_value' = nifty_pe_last_value + cfg.pe_gap *
                  SellMultiplier(PePriceDiff(current_price, nifty_pe_last_value), cfg.pe_gap)
             /\ CallsOf("PE", broker_calls') = {}
        /\ (pc = "ce" /\ CeGuardTrips(current_price, nifty_ce_last_value)) =>
             /\ nifty_ce_last_value' = nifty_ce_last_value - cfg.ce_gap *
                  SellMultiplier(CePriceDiff(current_price, nifty_ce_last_value), cfg.ce_gap)
             /\ CallsOf("CE", broker_calls') = {}
        /\ (pc = "pe_find" /\ pc' \notin PeStages) =>
             /\ nifty_pe_last_value' = at_tick.pe + cfg.pe_gap * sell_multiplier
             /\ CallsOf("PE", broker_calls') = {}
        /\ (pc = "ce_find" /\ pc' \notin CeStages) =>
             /\ nifty_ce_last_value' = at_tick.ce - cfg.ce_gap * sell_multiplier
             /\ CallsOf("CE", broker_calls') = {} ]_vars

(***************************************************************************)
(* C5, amended.  When no instrument is found for a fired side (at once or  *)
(* after the fallback gaps are exhausted) no order is placed for the side  *)
(* on that tick and its reference is left advanced by gap * multiplier;    *)
(* when the multiplier guard trips no order is placed and the reference is *)
(* left where it was, not advanced.                                        *)
(***************************************************************************)
C5_SuppressedNoOrder ==
    [][ /\ (pc = "pe" /\ PeGuardTrips(current_price, nifty_pe_last_value)) =>
             /\ nifty_pe_last_value' = at_tick.pe
             /\ CallsOf("PE", broker_calls') = {}
             /\ all_orders' = all_orders
        /\ (pc = "ce" /\ CeGuardTrips(current_price, nifty_ce_last_value)) =>
             /\ nifty_ce_last_value' = at_tick.ce
             /\ CallsOf("CE", broker_calls') = {}
             /\ all_orders' = all_orders
        /\ (pc = "pe_find" /\ pc' \notin PeStages) =>
             /\ sell_multiplier >= 1
             /\ nifty_pe_last_value' = at_tick.pe + cfg.pe_gap * sell_multiplier
             /\ CallsOf("PE", broker_calls') = {}
             /\ all_orders' = all_orders
        /\ (pc = "ce_find" /\ pc' \notin CeStages) =>
             /\ sell_multiplier >= 1
             /\ nifty_ce_last_value' = at_tick.ce - cfg.ce_gap * sell_multiplier
             /\ CallsOf("CE", broker_calls') = {}
             /\ all_orders' = all_orders ]_vars

\* the CALL side fired with multiplier 2, every quote was below the floor and
\* the fallback ran out of strikes: no order, reference left two gaps lower
C5_Witness ==
    /\ pc = "done"
    /\ InLog("ce_adjusting_gap")
    /\ InLogError("IndexError")
    /\ broker_calls = << >>
    /\ nifty_ce_last_value = at_tick.ce - 2 * cfg.ce_gap

(***************************************************************************)
(* C6.  On a tick with price - putReference <= pe_gap the PUT trigger      *)
(* evaluation produces no decision and leaves the PUT reference and flag   *)
(* unchanged; likewise the CALL side when callReference - price <= ce_gap. *)
(***************************************************************************)
C6_NoDecisionWithinGap ==
    [][ /\ (pc = "pe" /\ current_price - nifty_pe_last_value <= cfg.pe_gap) =>
             /\ pc' = "ce"
             /\ nifty_pe_last_value' = nifty_pe_last_value
             /\ pe_reset_gap_flag' = pe_reset_gap_flag
        /\ (pc = "ce" /\ nifty_ce_last_value - current_price <= cfg.ce_gap) =>
             /\ pc' = "reset"
             /\ nifty_ce_last_value' = nifty_ce_last_value
             /\ ce_reset_gap_flag' = ce_reset_gap_flag ]_vars

C9_ResetRunsOnEveryTick ==
    [][ pc' = "done" => pc = "reset" ]_vars

(***************************************************************************)
(* C10.  While one tick is processed broker.place_order is called at most  *)
(* once for the PUT side and at most once for the CALL side, any PUT call   *)
(* comes before any CALL call, and so at most one order id per side        *)
(* results from the tick.                                                  *)
(***************************************************************************)
C10_AtMostOnePlacementPerSide ==
    /\ Cardinality(CallsOf("PE", broker_calls)) <= 1
    /\ Cardinality(CallsOf("CE", broker_calls)) <= 1
    /\ \A i \in CallsOf("PE", broker_calls) :
         \A j \in CallsOf("CE", broker_calls) : i < j
    /\ CallsOf("CE", broker_calls) # {} => pc \in {"reset", "done"}
    /\ CallsOf("PE", broker_calls) # {} => pc \notin PeStages

\* one tick has placed a PUT order and then a CALL order, both accepted
C10_Witness ==
    /\ Len(broker_calls) = 2
    /\ broker_calls[1].side = "PE" /\ broker_calls[1].order_id # -1
    /\ broker_calls[2].side = "CE" /\ broker_calls[2].order_id # -1

(***************************************************************************)
(* C11.  The ledger is written on a tick exactly when broker.place_order   *)
(* returned an order id: a successful placement is followed in the same    *)
(* step of the tick by one ledger record with that id, symbol and          *)
(* quantity, which becomes the current order; a failed placement leaves    *)
(* the mapping, the current order and the orders file as they were; and    *)
(* nothing else writes the ledger.                                         *)
(***************************************************************************)
C11_LedgerIffPlaced ==
    [][ /\ pc \in {"pe_place", "ce_place"} =>
             LET call == broker_calls'[Len(broker_calls')] IN
             /\ Len(broker_calls') = Len(broker_calls) + 1
             /\ IF call.order_id = -1
                THEN /\ all_orders' = all_orders
                     /\ current_order' = current_order
                     /\ orders_file' = orders_file
                ELSE /\ DOMAIN all_orders' = DOMAIN all_orders \cup {call.order_id}
                     /\ \A k \in DOMAIN all_orders \ {call.order_id} :
                          all_orders'[k] = all_orders[k]
                     /\ all_orders'[call.order_id].order_id = call.order_id
                     /\ all_orders'[call.order_id].symbol = call.symbol
                     /\ all_orders'[call.order_id].quantity = call.quantity
                     /\ current_order' = all_orders'[call.order_id]
        /\ pc \notin {"pe_place", "ce_place"} =>
             /\ all_orders' = all_orders
             /\ current_order' = current_order
             /\ orders_file' = orders_file ]_vars

\* on one tick the PUT placement failed and the CALL placement succeeded: the
\* ledger holds the CALL order only, and it has been saved
C11_Witness ==
    /\ Len(broker_calls) = 2
    /\ broker_calls[1].order_id = -1
    /\ broker_calls[2].order_id # -1
    /\ DOMAIN all_orders = {broker_calls[2].order_id}
    /\ all_orders[broker_calls[2].order_id].symbol = broker_calls[2].symbol
    /\ orders_file.state = "written"

C13_StopsAtFirstId ==
    call_pc = "returned" =>
      /\ call_attempts \in 1 .. MaxAttempts
      /\ \A i \in 1 .. (call_attempts - 1) : call_resp[i] = "empty"
      /\ call_resp[call_attempts] = "id" => call_return = call_id
      /\ call_return # -1 => (call_resp[call_attempts] = "id" /\ call_return = call_id)

\* the third attempt returned an id; the venue would have returned one on the
\* fourth too, but the fourth was never made
C13_Witness ==
    /\ call_pc = "returned"
    /\ call_attempts = 3
    /\ call_resp[3] = "id" /\ call_resp[4] = "id"
    /\ call_return = call_id

(***************************************************************************)
(* C14.  broker.place_order reports failure (-1) only after all 5 attempts *)
(* were made and none returned an id; an attempt that raises does not end  *)
(* the retries.                                                            *)
(***************************************************************************)
C14_FailureOnlyAfterFiveAttempts ==
    (call_pc = "returned" /\ call_return = -1) =>
      /\ call_attempts = MaxAttempts
      /\ \A i \in 1 .. MaxAttempts : call_resp[i] # "id"

(***************************************************************************)
(* C15.  Whenever selection returns an instrument, it is a catalog row of  *)
(* the side's option type in the options segment, its strike is within     *)
(* strike_difference / 2 of the target strike (price - gap for PUT,        *)
(* price + gap for CALL), and no other row of that type and segment is     *)
(* strictly closer to the target.                                          *)
(***************************************************************************)
NearestWithinTolerance(row, option_type, target) ==
    /\ \E i \in 1 .. Len(instruments) : instruments[i] = row
    /\ row.instrument_type = option_type
    /\ row.segment = "NFO-OPT"
    /\ 2 * Abs(row.strike - target) <= strike_difference
    /\ \A i \in 1 .. Len(instruments) :
         (instruments[i].instrument_type = option_type /\ instruments[i].segment = "NFO-OPT")
           => Abs(instruments[i].strike - target) >= Abs(row.strike - target)

C16_SelectionFailureIsNonFatal ==
    [][ /\ ( /\ pc = "pe_find"
             /\ WithinTolerance(SideRows(instruments, "PE"),
                                current_price - temp_gap, strike_difference) = {} )
           => /\ pc' = "ce"
              /\ CallsOf("PE", broker_calls') = {}
              /\ \A i \in 1 .. Len(log') : log'[i][1] # "error_processing_tick"
        /\ ( /\ pc = "ce_find"
             /\ WithinTolerance(SideRows(instruments, "CE"),
                                current_price + temp_gap, strike_difference) = {} )
           => /\ pc' = "reset"
              /\ CallsOf("CE", broker_calls') = {}
              /\ \A i \in 1 .. Len(log') : log'[i][1] # "error_processing_tick" ]_vars

DistinctStrikes(instr) == Cardinality({ instr[i].strike : i \in 1 .. Len(instr) })

(***************************************************************************)
(* C18.  On every fired tick the reduce-gap-and-reselect loop of a side    *)
(* goes round again at most as many times as there are distinct strikes    *)
(* in the catalog, and then ends with a placement attempt or with no order.*)
(***************************************************************************)
C18_SelectionLoopBounded ==
    /\ Adjustments("pe_adjusting_gap") <= DistinctStrikes(instruments)
    /\ Adjustments("ce_adjusting_gap") <= DistinctStrikes(instruments)

\* with a strike_difference of 0 the gap adjustment changes nothing: the loop
\* has quoted the same PUT row again MaxIterations times
C18_LoopStuck ==
    /\ strike_difference = 0
    /\ pc = "pe_find"
    /\ temp_gap = cfg.pe_symbol_gap
    /\ Adjustments("pe_adjusting_gap") = MaxIterations

\* the strike spacing of the options chain: the least distance between two
\* different strikes of the options segment (0 when there is only one)
StrikeSpacing(instr) ==
    LET strikes == { instr[i].strike : i \in { j \in 1 .. Len(instr) :
                                                instr[j].segment = "NFO-OPT" } }
        dists   == { Abs(a - b) : a \in strikes, b \in strikes } \ {0}
    IN  IF dists = {} THEN 0
        ELSE CHOOSE d \in dists : \A e \in dists : d <= e

(***************************************************************************)
(* C19.  A side whose catalog subset is empty never places an order, and   *)
(* the other side goes on normally: its selection accepts and returns a    *)
(* row exactly as it does with the chain's strike spacing as tolerance     *)
(* base, the one in use when both subsets are populated.                   *)
(***************************************************************************)
C19_OtherSideUnaffected ==
    /\ [] ( /\ SideRows(instruments, "PE") = {} => CallsOf("PE", broker_calls) = {}
            /\ SideRows(instruments, "CE") = {} => CallsOf("CE", broker_calls) = {} )
    /\ [][ /\ (pc = "pe_find" /\ SideRows(instruments, "CE") = {}) =>
                \E r \in FindNiftySymbolFromGap(instruments, StrikeSpacing(instruments),
                                                "PE", current_price, temp_gap) :
                   IF r.kind = "row"
                   THEN pc' = "pe_quote" /\ instrument' = r.row
                   ELSE pc' # "pe_quote"
           /\ (pc = "ce_find" /\ SideRows(instruments, "PE") = {}) =>
                \E r \in FindNiftySymbolFromGap(instruments, StrikeSpacing(instruments),
                                                "CE", current_price, temp_gap) :
                   IF r.kind = "row"
                   THEN pc' = "ce_quote" /\ instrument' = r.row
                   ELSE pc' # "ce_quote" ]_vars

(***************************************************************************)
(* C20.  The PUT reference goes down only in the reset step, and then to a *)
(* value between the current price and where it was; it goes up only when  *)
(* the PUT side fires, and a PUT fire strictly raises it.  The CALL        *)
(* reference goes up only in the reset step, to a value between where it   *)
(* was and the current price; it goes down only when the CALL side fires,  *)
(* and a CALL fire strictly lowers it.                                     *)
(***************************************************************************)
C20_ReferenceMovesAsAllowed ==
    [][ /\ nifty_pe_last_value' < nifty_pe_last_value =>
             (pc = "reset" /\ nifty_pe_last_value' >= current_price)
        /\ nifty_pe_last_value' > nifty_pe_last_value => PeFires
        /\ PeFires => nifty_pe_last_value' > nifty_pe_last_value
        /\ nifty_ce_last_value' > nifty_ce_last_value =>
             (pc = "reset" /\ nifty_ce_last_value' <= current_price)
        /\ nifty_ce_last_value' < nifty_ce_last_value => CeFires
        /\ CeFires => nifty_ce_last_value' < nifty_ce_last_value ]_vars

\* a CALL reset has raised the CALL reference towards the price, stopping one
\* reset gap short of it
C20_Witness ==
    /\ pc = "done"
    /\ InLog("resetting_ce")
    /\ nifty_ce_last_value > at_tick.ce
    /\ nifty_ce_last_value < current_price

\* trigger evaluation of a side at this price against this reference would
\* produce a decision (with the configured gap and threshold)
PeWouldFire(price, ref) ==
    /\ ~PeStable(price, ref)
    /\ GapBreached(PePriceDiff(price, ref), cfg.pe_gap)
    /\ ~CheckSellMultiplierBreach(SellMultiplier(PePriceDiff(price, ref), cfg.pe_gap),
                                  cfg.sell_multiplier_threshold)
CeWouldFire(price, ref) ==
    /\ ~CeStable(price, ref)
    /\ GapBreached(CePriceDiff(price, ref), cfg.ce_gap)
    /\ ~CheckSellMultiplierBreach(SellMultiplier(CePriceDiff(price, ref), cfg.ce_gap),
                                  cfg.sell_multiplier_threshold)

(***************************************************************************)
(* C21.  When a side has fired on a tick (its reference stands beyond      *)
(* where it was when the tick was taken), the same price delivered again   *)
(* as the next tick does not fire that side: at the end of the tick the    *)
(* price no longer breaches the side's reference.                          *)
(***************************************************************************)
C21_SamePriceDoesNotFireAgain ==
    pc = "done" =>
      /\ nifty_pe_last_value > at_tick.pe =>
           ~PeWouldFire(current_price, nifty_pe_last_value)
      /\ nifty_ce_last_value < at_tick.ce =>
           ~CeWouldFire(current_price, nifty_ce_last_value)

(***************************************************************************)
(* Vocabulary of the ledger properties.                                    *)
(***************************************************************************)
\* the call is an add_order with an order id that is there and not empty
IsRecord(call) == call.op = "add_order" /\ call.arg.order_id # 0
IsComplete(call) == call.op = "complete_order"
IsLoad(call) == call.op = "init"
IsLoadAfterCrash(call) == call.op = "init after crash"
Logged(call, text) == text \in SeqRange(call.logged)
\* how often the id is a key of the mapping
KeyCount(keys, order_id) == Len(SelectSeq(keys, LAMBDA k : k = order_id))
\* how often the id is in the completed list
CompletedCount(completed, order_id) == Len(SelectSeq(completed, LAMBDA c : c = order_id))
\* the completed counter of a transaction type (0 when there is none)
Counter(summary, type) == IF type \in DOMAIN summary THEN summary[type] ELSE 0

(***************************************************************************)
(* C22.  add_order is idempotent on the order id: after a call with an id, *)
(* the mapping has that id as a key exactly once, next to the keys it had, *)
(* and the entry carries the fields of this call (and a timestamp); so a   *)
(* second call with the same id leaves one entry, with its fields.         *)
(***************************************************************************)
C22_RecordIsIdempotentOnId ==
    [][ IsRecord(ledger_call') =>
          LET od == ledger_call'.arg IN
          /\ DOMAIN all_orders' = DOMAIN all_orders \cup {od.order_id}
          /\ SeqRange(key_order') = DOMAIN all_orders'
          /\ KeyCount(key_order', od.order_id) = 1
          /\ DOMAIN all_orders'[od.order_id] = DOMAIN od \cup {"timestamp"}
          /\ \A f \in DOMAIN od : all_orders'[od.order_id][f] = od[f] ]_vars

\* order 1 was recorded as a SELL and completed, and has been recorded again
\* as a BUY: the one entry is the BUY
C22_Witness ==
    /\ IsRecord(ledger_call)
    /\ Logged(ledger_call, "already exists")
    /\ ledger_call.arg = Typed(1, "BUY")
    /\ order_ids_completed = <<1>>
    /\ Counter(order_types_summary, "SELL") = 1
    /\ key_order = <<1>>
    /\ all_orders[1].transaction_type = "BUY"

(***************************************************************************)
(* C23.  add_order with a missing or empty order id is rejected: the       *)
(* mapping, its keys, the current order, the completed ids, the counters   *)
(* and the orders file are as they were, and the rejection is logged.      *)
(***************************************************************************)
C23_MissingIdIsRejected ==
    [][ ledger_call'.op = "add_order" /\ ledger_call'.arg.order_id = 0 =>
          /\ all_orders' = all_orders
          /\ key_order' = key_order
          /\ current_order' = current_order
          /\ order_ids_completed' = order_ids_completed
          /\ order_types_summary' = order_types_summary
          /\ orders_file' = orders_file
          /\ ledger_call'.logged = <<"Cannot place order">> ]_vars

\* an order without an id was handed to a tracker that holds order 1,
\* completed and saved
C23_Witness ==
    /\ ledger_call.op = "add_order"
    /\ ledger_call.arg.order_id = 0
    /\ ledger_call.logged = <<"Cannot place order">>
    /\ key_order = <<1>>
    /\ current_order = all_orders[1]
    /\ order_ids_completed = <<1>>
    /\ orders_file.state = "written"
    /\ orders_file.content = all_orders

(***************************************************************************)
(* C24.  After add_order with an order id, the current order is the order  *)
(* just written (the entry of that id, with the fields of the call),       *)
(* whatever its timestamp and the timestamps of the other entries.         *)
(***************************************************************************)
C24_CurrentIsJustWritten ==
    IsRecord(ledger_call) =>
      /\ ledger_call.arg.order_id \in DOMAIN all_orders
      /\ current_order = all_orders[ledger_call.arg.order_id]
      /\ \A f \in DOMAIN ledger_call.arg : current_order[f] = ledger_call.arg[f]

\* order 2 was written with a timestamp older than that of order 1 and is
\* the current order
C24_Witness ==
    /\ IsRecord(ledger_call)
    /\ ledger_call.arg = With(Typed(2, "SELL"), "timestamp", CallerTimestamp)
    /\ key_order = <<1, 2>>
    /\ all_orders[1].timestamp > all_orders[2].timestamp
    /\ current_order = all_orders[2]

\* no entry of the mapping has a later timestamp than this order
HasMaxTimestamp(od, orders) ==
    \A k \in DOMAIN orders : orders[k].timestamp <= od.timestamp

C26_UnknownIdIsRefused ==
    [][ IsComplete(ledger_call') /\ ledger_call'.arg.order_id \notin DOMAIN all_orders =>
          /\ ledger_call'.ret = "False"
          /\ order_ids_completed' = order_ids_completed
          /\ order_types_summary' = order_types_summary
          /\ all_orders' = all_orders
          /\ key_order' = key_order ]_vars

\* complete_order was refused for order 2 while order 1 is recorded and
\* completed
C26_Witness ==
    /\ IsComplete(ledger_call)
    /\ ledger_call.arg.order_id = 2
    /\ ledger_call.ret = "False"
    /\ Logged(ledger_call, "not found in the order tracker")
    /\ key_order = <<1>>
    /\ order_ids_completed = <<1>>
    /\ Counter(order_types_summary, "SELL") = 1

(***************************************************************************)
(* C27.  complete_order is idempotent on a known id: every call returns    *)
(* True, the id is in the completed list exactly once afterwards, and the  *)
(* counter of the order's transaction type goes up by one on the first     *)
(* call and stays on every later call; no other counter moves.             *)
(***************************************************************************)
C27_CompleteIsIdempotent ==
    [][ IsComplete(ledger_call') /\ ledger_call'.arg.order_id \in DOMAIN all_orders =>
          LET order_id == ledger_call'.arg.order_id IN
          /\ ledger_call'.ret = "True"
          /\ CompletedCount(order_ids_completed', order_id) = 1
          /\ IF order_id \in SeqRange(order_ids_completed)
             THEN order_types_summary' = order_types_summary
             ELSE \A t \in TransactionTypes :
                    Counter(order_types_summary', t) =
                      Counter(order_types_summary, t) +
                        (IF t = all_orders[order_id].transaction_type THEN 1 ELSE 0) ]_vars

(***************************************************************************)
(* C28.  Within a session (between two starts of the tracker) every        *)
(* completed id is a key of the mapping, no key leaves the mapping, and no *)
(* id leaves the completed list.                                           *)
(***************************************************************************)
C28_CompletedAreKeysAndStay ==
    [][ /\ SeqRange(order_ids_completed') \subseteq DOMAIN all_orders'
        /\ ~IsLoad(ledger_call') /\ ~IsLoadAfterCrash(ledger_call') =>
             /\ DOMAIN all_orders \subseteq DOMAIN all_orders'
             /\ SeqRange(order_ids_completed) \subseteq SeqRange(order_ids_completed') ]_vars

\* orders 2 and 1 were completed, and order 2 has been recorded again since
C28_Witness ==
    /\ IsRecord(ledger_call)
    /\ ledger_call.arg.order_id = 2
    /\ Logged(ledger_call, "already exists")
    /\ order_ids_completed = <<2, 1>>
    /\ DOMAIN all_orders = {1, 2}

(***************************************************************************)
(* C29.  When add_order has taken an order and returned, the orders file   *)
(* holds the whole mapping, the new order included; or else the write      *)
(* failed and the call told its caller so: it did not return normally      *)
(* with "Orders saved to disk." as its last word.                          *)
(***************************************************************************)
C29_RecordedIsOnDiskOrReported ==
    IsRecord(ledger_call) =>
      \/ /\ orders_file.state = "written"
         /\ orders_file.content = all_orders
         /\ ledger_call.arg.order_id \in DOMAIN orders_file.content
      \/ /\ ledger_call.ret # None
         /\ ~Logged(ledger_call, "Orders saved to disk.")

(***************************************************************************)
(* C30.  A complete_order that returned True is durable: when the tracker  *)
(* is started again right after it and the order is in the loaded          *)
(* mapping, the order is still in the completed list.                      *)
(***************************************************************************)
C30_CompletionSurvivesRestart ==
    [][ /\ IsComplete(ledger_call) /\ ledger_call.ret = "True"
        /\ IsLoad(ledger_call')
        /\ ledger_call.arg.order_id \in DOMAIN all_orders'
        => ledger_call.arg.order_id \in SeqRange(order_ids_completed') ]_vars

\* the last save succeeded: the orders file holds the mapping as it is in
\* memory, in the same key order
Persisted == 
    /\ orders_file.state = "written"
    /\ orders_file.content = all_orders
    /\ orders_file.keys = key_order

\* every other entry of the mapping has an earlier timestamp than this order
StrictlyLatest(od, orders) ==
    \A k \in DOMAIN orders : orders[k] # od => orders[k].timestamp < od.timestamp

HoldsOrders(file) == file.state = "written" /\ DOMAIN file.content # {}

(***************************************************************************)
(* C32.  A load never fails: OrderTracker.__init__ returns; when the       *)
(* orders file does not hold a mapping with orders in it (it is absent,    *)
(* empty, truncated, or holds something that is not a mapping) the tracker *)
(* starts with an empty mapping and no current order; otherwise it holds   *)
(* the file's mapping and the current order is an entry with the maximum   *)
(* timestamp, wherever that entry stands in the file.                      *)
(***************************************************************************)
C32_LoadStartsEmptyOrWithLatest ==
    IsLoad(ledger_call) =>
      /\ ledger_call.ret = None
      /\ all_orders_type = "dict"
      /\ IF HoldsOrders(orders_file)
         THEN /\ all_orders = orders_file.content
              /\ \E k \in DOMAIN all_orders : all_orders[k] = current_order
              /\ HasMaxTimestamp(current_order, all_orders)
         ELSE /\ all_orders = NoOrders
              /\ current_order = NoOrder

(***************************************************************************)
(* C33.  The tracker is crash-recoverable: when every order recorded so    *)
(* far is in the orders file and the process dies at any point, also in    *)
(* the middle of the next write of the file, every recorded order is in    *)
(* the mapping after the restart, as it was recorded.                      *)
(***************************************************************************)
C33_RecordedSurviveCrash ==
    [][ (IsLoad(ledger_call') \/ IsLoadAfterCrash(ledger_call')) /\ Persisted =>
          \A k \in DOMAIN all_orders :
             k \in DOMAIN all_orders' /\ all_orders'[k] = all_orders[k] ]_vars


\* the ticks in the order the main thread gets them: those whose iteration
\* has ended, the one being processed, and the first tick of every message
\* still on the queue
TicksInTurn ==
    [i \in 1 .. Len(processed) |-> processed[i].last_price]
      \o (IF pc = "idle" THEN << >> ELSE <<current_price>>)
      \o [i \in 1 .. Len(main_queue.items) |-> Head(main_queue.items[i])]

(***************************************************************************)
(* C34.  Every tick the websocket thread delivers is processed exactly     *)
(* once and in arrival order: the ticks processed, in process and queued   *)
(* are, in that order, the ticks delivered (none is dropped, none is taken *)
(* before the one in process has ended), and every delivered tick's        *)
(* processing eventually ends, however the earlier ticks went.             *)
(***************************************************************************)
C34_EveryTickProcessedInOrder ==
    /\ [] (TicksInTurn = dispatched)
    /\ \A n \in 1 .. MaxTicks : (Len(dispatched) >= n) ~> (Len(processed) >= n)

(***************************************************************************)
(* C35.  An error raised while a tick is processed does not stop the main  *)
(* loop: once "Error processing tick" is logged and a further tick has     *)
(* been delivered, that tick is taken and its processing begins.           *)
(***************************************************************************)
C35_ErrorDoesNotStopLoop ==
    \A n \in 0 .. MaxTicks :
       (ErrorLogged /\ Len(processed) = n /\ Len(dispatched) > n + 1)
          ~> (pc = "pe" /\ Len(processed) = n + 1
                /\ current_price = dispatched[n + 2])

\* a tick is being processed after the iteration of the tick before it ended
\* in the except clause
C35_Witness ==
    /\ pc = "pe"
    /\ Len(processed) >= 1
    /\ processed[Len(processed)].error
    /\ current_price = dispatched[Len(processed) + 1]

(***************************************************************************)
(* C36.  Whatever goes wrong on the PUT side of a tick (selection, quote   *)
(* or placement), the PUT handler ends by handing the same tick to the     *)
(* CALL handler: from every stage of the PUT side the processing stays on  *)
(* the PUT side or goes on to the CALL side's trigger evaluation.          *)
(***************************************************************************)
C36_PutErrorDoesNotSkipCall ==
    [][ (pc \in PeStages) => (pc' \in PeStages \cup {"ce"}) ]_vars


\* the side's trigger evaluation fired on the tick being processed: its
\* reference is no longer where it was when the tick was taken
PeFiredOnTick == nifty_pe_last_value > at_tick.pe
CeFiredOnTick == nifty_ce_last_value < at_tick.ce

(***************************************************************************)
(* C37.  With positive gaps and non-negative reset gaps a side that fired  *)
(* on a tick is not reset on the same tick: after a PUT fire the advanced  *)
(* reference is at most the tick's price (after a CALL fire at least the   *)
(* price), and the reset step of that tick leaves the reference alone.     *)
(***************************************************************************)
C37_NoFireAndResetOnOneTick ==
    [][ /\ (pc = "reset" /\ PeFiredOnTick)
           => /\ nifty_pe_last_value <= current_price
              /\ nifty_pe_last_value' = nifty_pe_last_value
        /\ (pc = "reset" /\ CeFiredOnTick)
           => /\ nifty_ce_last_value >= current_price
              /\ nifty_ce_last_value' = nifty_ce_last_value ]_vars


\* the preconditions of C38 on the configuration: every gap and reset gap is
\* positive, and no price within range gives a multiplier above the threshold
AllGapsPositive(c) ==
    /\ c.pe_gap > 0 /\ c.ce_gap > 0
    /\ c.pe_reset_gap > 0 /\ c.ce_reset_gap > 0
GuardCannotTrip(c) ==
    \A d \in 0 .. 2 * MaxPrice :
       /\ SellMultiplier(Round0(d), c.pe_gap) <= c.sell_multiplier_threshold
       /\ SellMultiplier(Round0(d), c.ce_gap) <= c.sell_multiplier_threshold

(***************************************************************************)
(* C38.  When both references start at the same value, every gap and reset *)
(* gap is positive and the multiplier guard never trips, the CALL          *)
(* reference is never more than pe_gap + ce_gap above the PUT reference    *)
(* between ticks, and no tick fires both the PUT side and the CALL side.   *)
(***************************************************************************)
C38_NoTickFiresBothSides ==
    [][ (AllGapsPositive(cfg) /\ GuardCannotTrip(cfg))
          => /\ (pc' = "idle")
                  => nifty_ce_last_value' - nifty_pe_last_value' <= cfg.pe_gap + cfg.ce_gap
             /\ ~(CeFires /\ PeFiredOnTick) ]_vars

(***************************************************************************)
(* C40.  While the selection loop lowers the gap it stays non-negative:    *)
(* when a PUT order is about to be placed its target strike is at or below *)
(* the tick's price, and when a CALL order is about to be placed its       *)
(* target strike is at or above it.                                        *)
(***************************************************************************)
C40_SelectionGapNonNegative ==
    /\ temp_gap >= 0
    /\ pc = "pe_place" => TargetStrike("PE", current_price, temp_gap) <= current_price
    /\ pc = "ce_place" => TargetStrike("CE", current_price, temp_gap) >= current_price


\* the completed ids whose order, as the mapping holds it now, has the type
CompletedOfType(completed, orders, type) ==
    { id \in SeqRange(completed) :
        /\ id \in DOMAIN orders
        /\ "transaction_type" \in DOMAIN orders[id]
        /\ orders[id].transaction_type = type }

(***************************************************************************)
(* C39.  After any sequence of add_order and complete_order calls the      *)
(* completed counter of every transaction type is the number of completed  *)
(* ids whose order, as recorded now, has that type, and the counters add   *)
(* up to the number of completed ids.                                      *)
(***************************************************************************)
C39_CountersMatchCompleted ==
    /\ \A t \in TransactionTypes :
         Counter(order_types_summary, t) =
           Cardinality(CompletedOfType(order_ids_completed, all_orders, t))
    /\ \A t \in DOMAIN order_types_summary : t \in TransactionTypes
    /\ Counter(order_types_summary, "SELL") + Counter(order_types_summary, "BUY")
         = Cardinality(SeqRange(order_ids_completed))

====
